---- MODULE Spec2Model ----
(***************************************************************************)
(* fqdns.py: a DNS client that collects the responses to one A query       *)
(* within a deadline and picks among them by strategy (pick_responses),    *)
(* the forged-response heuristic (is_right_response) and the discovery of  *)
(* forged addresses built on both (discover, discover_once).               *)
(*                                                                         *)
(* One behaviour of the model is one call of resolve, over udp or tcp or   *)
(* with a server type it does not know (Spec, and SpecLive for udp under   *)
(* fairness), one call of discover (SpecDiscover), one call of either      *)
(* (SpecCalls), or two calls of discover in a row on a network that does   *)
(* the same both times (SpecTwice).  The network is the environment: at    *)
(* every select it delivers a datagram, lets the wait time out, or reports *)
(* a socket error.  Time is counted in ticks from the moment the current   *)
(* resolve_over_udp call opened its socket.  The endpoint given as at is   *)
(* taken to be well formed.                                                *)
(***************************************************************************)
EXTENDS Integers, Sequences, FiniteSets, TLC

\* Bounds of the model.
MaxResponses == 2      \* datagrams the network delivers to one socket
MaxAnswers == 2        \* A records in the answer section of one response
MaxDomains == 2        \* domains given to one discover call

\* dpkt.dns.DNS_A, the record type list_ipv4_addresses keeps.
DNS_A == 1
\* The packed DNS header: len() of a dpkt.dns.DNS object is the length of its
\* wire form, header included.
DNS_HDR_LEN == 12

Rdatas == {<<1, 1, 1, 1>>, <<2, 2, 2, 2>>}
DomainNames == {"twitter.com"}
Strategies == {"pick-first", "pick-later", "pick-right", "pick-right-later", "pick-all"}
UnsupportedStrategy == "pick-best"
ServerTypes == {"udp", "tcp"}
UnsupportedServerType == "http"
Timeouts == {-1, 0, 1}
\* Ticks that may pass between a datagram becoming readable and the next
\* reading of the clock.
Lags == {0, 1}

\* socket.inet_ntoa: four bytes to dotted-quad text (tabulated over Rdatas).
DottedQuad ==
    [rdata \in Rdatas |->
        ToString(rdata[1]) \o "." \o ToString(rdata[2]) \o "."
            \o ToString(rdata[3]) \o "." \o ToString(rdata[4])]
inet_ntoa(rdata) == DottedQuad[rdata]

Addresses == {inet_ntoa(rd) : rd \in Rdatas}
WrongAnswerSets == SUBSET Addresses

\* The A records a response may carry, and a record of another type
\* (CNAME, 5), whose rdata is no address.
ARecords == [type : {DNS_A}, rdata : Rdatas]
CnameRecord == [type |-> 5, rdata |-> <<1, 1, 1, 1>>]
SeqsUpTo(S, n) == UNION {[1..k -> S] : k \in 0..n}
\* A decoded response: its answer section (the id is never read), which is
\* the A records, after the CNAME record when there is one.
Responses ==
    [an : {cname \o a : cname \in {<<>>, <<CnameRecord>>},
                        a \in SeqsUpTo(ARecords, MaxAnswers)}]

VARIABLES
    entry,                  \* "resolve" or "discover": the function called
    domain,                 \* its argument domain: for discover the sequence
                            \* of names, for resolve the one name
    network,                \* what the network will do: anything, or a script
    run,                    \* 1, or 2 when the caller has made the call again
    first,                  \* what the first of two calls came to
    server_type,            \* resolve: its argument server_type
    wrong_answer,           \* resolve: its argument wrong_answer, None or a list
    domains,                \* discover: the domains still to be probed
    discover_wrong_answers, \* discover: its accumulator wrong_answers
    contribution,           \* discover: what discover_once returned last
    strategy, wrong_answers, timeout,   \* arguments of resolve_over_udp
    pc,                     \* "call", "resolve_over_udp", "pick_responses",
                            \* "resolve_over_tcp", "read", "done"
    sock,                   \* "none", "open", "closed"
    io,                     \* sockets opened and queries sent by the call so far;
                            \* whether select was called on the current socket,
                            \* whether it reported an error, the recvs done on it
    now,                    \* the clock
    started_at,             \* pick_responses: started_at
    picked_responses,       \* pick_responses: picked_responses
    received,               \* the responses this call has read, in arrival order
    verdict,                \* <<b>> when is_right_response said b of the last
                            \* datagram, <<>> when it was not asked
    returned,               \* what pick_responses returned
    result,                 \* what resolve_over_udp or resolve_over_tcp returned
    outcome,                \* "running", "returned", "raised"
    error                   \* the exception's message when raised

vars == <<entry, domain, network, run, first, server_type, wrong_answer, domains, discover_wrong_answers,
          contribution, strategy, wrong_answers, timeout, pc, sock, io, now,
          started_at, picked_responses, received, verdict, returned, result,
          outcome, error>>

\* The arguments of the call, which no step writes.
arguments == <<entry, domain, server_type, wrong_answer, strategy, timeout>>
\* The network, and the caller's record of an earlier call.
setting == <<network, run, first>>

\* Python values.  A list and a bare dpkt.dns.DNS object are told apart by kind.
NoValue == [kind |-> "none", items |-> <<>>]
PyList(s) == [kind |-> "list", items |-> s]
Packet(r) == [kind |-> "packet", items |-> <<r>>]
\* resolve_over_udp's result: value is a list of addresses (depth 1) or a
\* list of such lists (depth 2).
NoResult == [depth |-> 0, value |-> <<>>]

\* len(): of a list its length, of a DNS object the length of its wire form,
\* which is the header and one byte at least for each record.
PyLen(v) ==
    IF v.kind = "list" THEN Len(v.items)
    ELSE DNS_HDR_LEN + Len(v.items[1].an)

list_ipv4_addresses(response) ==
    LET a == SelectSeq(response.an, LAMBDA answer : answer.type = DNS_A)
    IN  [i \in 1..Len(a) |-> inet_ntoa(a[i].rdata)]


\* is_right_response that trusts a response without addresses.
is_right_response_EmptyIsRight(response, wrong) ==
    LET answers == list_ipv4_addresses(response)
    IN  IF Len(answers) # 1 THEN TRUE
        ELSE ~ \E i \in DOMAIN answers : answers[i] \in wrong

\* is_right_response without the shortcut for more than one answer.
is_right_response_AnyWrong(response, wrong) ==
    LET answers == list_ipv4_addresses(response)
    IN  IF answers = <<>> THEN FALSE
        ELSE ~ \E i \in DOMAIN answers : answers[i] \in wrong

is_right_response(response, wrong) ==
    LET answers == list_ipv4_addresses(response)
    IN  IF answers = <<>> THEN FALSE
        ELSE IF Len(answers) > 1 THEN TRUE
        ELSE ~ \E i \in DOMAIN answers : answers[i] \in wrong

\* The strategy branches of pick_responses for one received response: ctl says
\* whether the function returns value, raises, or loops on with picked.
PickFirst(picked, response) ==
    [ctl |-> "return", picked |-> picked, value |-> Packet(response)]

\* pick-later that keeps the first response it holds.
PickLater_KeepsFirst(picked, response) ==
    [ctl |-> "continue",
     picked |-> IF picked = <<>> THEN <<response>> ELSE picked,
     value |-> NoValue]

PickLater(picked, response) ==
    [ctl |-> "continue", picked |-> <<response>>, value |-> NoValue]

PickRight(picked, response, wrong) ==
    IF is_right_response(response, wrong)
    THEN [ctl |-> "return", picked |-> picked, value |-> Packet(response)]
    ELSE [ctl |-> "continue", picked |-> picked, value |-> NoValue]


\* pick-right-later that appends the genuine response to the list.
PickRightLater_Appends(picked, response, wrong) ==
    IF is_right_response(response, wrong)
    THEN [ctl |-> "continue", picked |-> Append(picked, response), value |-> NoValue]
    ELSE [ctl |-> "continue", picked |-> picked, value |-> NoValue]

\* pick-right-later in which a forged response clears the held candidate.
PickRightLater_ForgedClears(picked, response, wrong) ==
    IF is_right_response(response, wrong)
    THEN [ctl |-> "continue", picked |-> <<response>>, value |-> NoValue]
    ELSE [ctl |-> "continue", picked |-> <<>>, value |-> NoValue]

PickRightLater(picked, response, wrong) ==
    IF is_right_response(response, wrong)
    THEN [ctl |-> "continue", picked |-> <<response>>, value |-> NoValue]
    ELSE [ctl |-> "continue", picked |-> picked, value |-> NoValue]

\* pick-all that puts the new response in front.
PickAll_Prepends(picked, response) ==
    [ctl |-> "continue", picked |-> <<response>> \o picked, value |-> NoValue]

PickAll(picked, response) ==
    [ctl |-> "continue", picked |-> Append(picked, response), value |-> NoValue]

StrategyRule(strat, picked, response, wrong) ==
    CASE strat = "pick-first" -> PickFirst(picked, response)
      [] strat = "pick-later" -> PickLater(picked, response)
      [] strat = "pick-right" -> PickRight(picked, response, wrong)
      [] strat = "pick-right-later" -> PickRightLater(picked, response, wrong)
      [] strat = "pick-all" -> PickAll(picked, response)
      [] OTHER -> [ctl |-> "raise", picked |-> picked, value |-> NoValue]

\* Whether the strategy consults is_right_response.
Classifies(strat) == strat \in {"pick-right", "pick-right-later"}

\* resolve_over_udp that takes responses[0] without looking at the length.
ShapeResult_NoEmptyCase(responses) ==
    IF PyLen(responses) > 1 /\ responses.kind = "list"
    THEN [raised |-> FALSE, error |-> "",
          value |-> [depth |-> 2,
                     value |-> [i \in 1..Len(responses.items) |->
                                   list_ipv4_addresses(responses.items[i])]]]
    ELSE IF PyLen(responses) = 1
    THEN [raised |-> FALSE, error |-> "",
          value |-> [depth |-> 1,
                     value |-> list_ipv4_addresses(responses.items[1])]]
    ELSE [raised |-> TRUE, error |-> "IndexError", value |-> NoResult]

\* resolve_over_udp after pick_responses returned responses.
ShapeResult(responses) ==
    IF PyLen(responses) = 1
    THEN [raised |-> FALSE, error |-> "",
          value |-> [depth |-> 1,
                     value |-> list_ipv4_addresses(responses.items[1])]]
    ELSE IF PyLen(responses) > 1
    THEN IF responses.kind = "list"
         THEN [raised |-> FALSE, error |-> "",
               value |-> [depth |-> 2,
                          value |-> [i \in 1..Len(responses.items) |->
                                        list_ipv4_addresses(responses.items[i])]]]
         \* a DNS object is no sequence of responses: iterating it raises
         ELSE [raised |-> TRUE, error |-> "TypeError", value |-> NoResult]
    ELSE [raised |-> FALSE, error |-> "", value |-> [depth |-> 1, value |-> <<>>]]

\* set() of one element of responses_answers whose len() is 1: an address
\* list or, when resolve_over_udp returned a flat list, a one-character string.
AnswersSet(depth, answers) ==
    IF depth = 2 THEN {answers[i] : i \in DOMAIN answers} ELSE {answers}


\* discover_once that reports only the wrong answers an earlier call has not
\* reported already.
discover_once_OnlyNew(responses_answers) ==
    LET v == responses_answers.value
        contains_right_answer == \E i \in DOMAIN v : Len(v[i]) > 1
    IN  IF contains_right_answer
        THEN UNION {AnswersSet(responses_answers.depth, v[i]) :
                        i \in {j \in DOMAIN v : Len(v[j]) = 1}} \ first.value
        ELSE {}

\* discover_once that does not ask for a response with several answers.
discover_once_NoEvidence(responses_answers) ==
    LET v == responses_answers.value
    IN  UNION {AnswersSet(responses_answers.depth, v[i]) :
                   i \in {j \in DOMAIN v : Len(v[j]) = 1}}

\* discover_once after resolve_over_udp returned responses_answers.  Len is
\* len() both of an address list and of an address string.
discover_once(responses_answers) ==
    LET v == responses_answers.value
        contains_right_answer == \E i \in DOMAIN v : Len(v[i]) > 1
    IN  IF contains_right_answer
        THEN UNION {AnswersSet(responses_answers.depth, v[i]) :
                        i \in {j \in DOMAIN v : Len(v[j]) = 1}}
        ELSE {}

remaining_timeout == started_at + timeout - now
deadline == started_at + timeout

\* A loop that goes on until the remaining time is exactly nought.
LoopContinues_UntilZero(remaining) == remaining # 0

\* The test of the while loop of pick_responses.
LoopContinues(remaining) == remaining > 0

\* The values of the argument wrong_answer: None, or a list of addresses.
WrongAnswerArgs ==
    {NoValue} \cup {PyList(s) : s \in {<<>>, <<"1.1.1.1">>, <<"2.2.2.2">>,
                                       <<"1.1.1.1", "2.2.2.2">>}}
\* resolve: set(wrong_answer) if wrong_answer else set().
WrongAnswerSet(arg) ==
    IF arg.kind = "list" /\ arg.items # <<>>
    THEN {arg.items[i] : i \in DOMAIN arg.items}
    ELSE {}


\* resolve that takes every server type but tcp for udp.
Dispatch_DefaultsToUdp(type) ==
    IF type = "tcp" THEN "resolve_over_tcp" ELSE "resolve_over_udp"

\* resolve: where the server type leads.
Dispatch(type) ==
    CASE type = "udp" -> "resolve_over_udp"
      [] type = "tcp" -> "resolve_over_tcp"
      [] OTHER -> "raise"


\* A collector that records the address of a response with a single answer
\* as a wrong answer.
WrongAfter_Learns(strat, response, wrong) ==
    IF Len(list_ipv4_addresses(response)) = 1
    THEN wrong \cup {list_ipv4_addresses(response)[1]}
    ELSE wrong

\* What the strategy branches leave of the wrong-answer set they are given:
\* is_right_response reads it and nothing writes to it.
WrongAfter(strat, response, wrong) == wrong


\* The accumulator rebound to the last contribution.
Accumulate_Overwrites(acc, found) == found

\* discover: wrong_answers |= discover_once(...).
Accumulate(acc, found) == acc \cup found


\* resolve_over_tcp that drops a response the wrong answers condemn.
TcpResult_Filters(response) ==
    IF is_right_response(response, WrongAnswerSet(wrong_answer))
    THEN list_ipv4_addresses(response)
    ELSE <<>>

\* resolve_over_tcp: the answer to one response read.  A dpkt.dns.DNS object
\* is true when its len() is not 0.
TcpResult(response) ==
    IF PyLen(Packet(response)) # 0
    THEN list_ipv4_addresses(response)
    ELSE <<>>

\* The network of one call.  A free network may do anything at any step.  A
\* script fixes, for each socket the call opens in turn, the delay before the
\* first test of the loop, the datagrams with the time each becomes readable
\* and the time spent on it, and how a wait with nothing more to read ends.
Free == [kind |-> "free", probes |-> <<>>]
NoFirst == [outcome |-> "running", error |-> "", value |-> {}]
Scripted == network.kind = "script"
Probe == network.probes[io.sockets]
Starts(lag) ==
    Scripted => /\ io.sockets < Len(network.probes)
                /\ network.probes[io.sockets + 1].lag = lag
Delivers(response, t, lag) ==
    Scripted => /\ Len(received) < Len(Probe.events)
                /\ Probe.events[Len(received) + 1] =
                       [response |-> response, t |-> t, lag |-> lag]
Idles ==
    Scripted => /\ Len(received) = Len(Probe.events)
                /\ Probe.ending.kind = "timeout"
Fails(t) ==
    Scripted => /\ Len(received) = Len(Probe.events)
                /\ Probe.ending = [kind |-> "error", t |-> t]

InitCommon ==
    /\ pc = "call"
    /\ run = 1
    /\ first = NoFirst
    /\ domains = <<>>
    /\ sock = "none"
    /\ io = [sockets |-> 0, sent |-> 0, waited |-> FALSE, failed |-> FALSE,
             recvs |-> 0]
    /\ now = 0
    /\ started_at = 0
    /\ picked_responses = <<>>
    /\ received = <<>>
    /\ verdict = <<>>
    /\ returned = NoValue
    /\ result = NoResult
    /\ outcome = "running"
    /\ error = ""
    /\ wrong_answers = {}
    /\ discover_wrong_answers = {}
    /\ contribution = {}
    /\ timeout \in Timeouts

\* resolve(domain, server_type, at, timeout, strategy, wrong_answer), the
\* endpoint at being well formed.
Init ==
    /\ InitCommon
    /\ entry = "resolve"
    /\ domain \in {<<name>> : name \in DomainNames}
    /\ network = Free
    /\ server_type \in ServerTypes \cup {UnsupportedServerType}
    /\ strategy \in Strategies \cup {UnsupportedStrategy}
    /\ wrong_answer \in WrongAnswerArgs

\* discover(domains, at, timeout).
InitDiscover ==
    /\ InitCommon
    /\ entry = "discover"
    /\ server_type = "udp"
    /\ domain \in UNION {[1..n -> DomainNames] : n \in 1..MaxDomains}
    /\ network = Free
    /\ strategy = "pick-all"
    /\ wrong_answer = NoValue

\* resolve down to the function it dispatches to, or discover down to its
\* first call of discover_once.
Call ==
    /\ pc = "call"
    /\ IF entry = "resolve"
       THEN /\ wrong_answers' =
                   IF Dispatch(server_type) = "resolve_over_udp"
                   THEN WrongAnswerSet(wrong_answer) ELSE wrong_answers
            /\ IF Dispatch(server_type) = "raise"
               THEN /\ pc' = "done"
                    /\ outcome' = "raised"
                    /\ error' = "unsupported server type"
               ELSE /\ pc' = Dispatch(server_type)
                    /\ UNCHANGED <<outcome, error>>
            /\ UNCHANGED <<domains, discover_wrong_answers>>
       ELSE /\ domains' = domain
            /\ discover_wrong_answers' = {}
            /\ wrong_answers' = {}
            /\ pc' = "resolve_over_udp"
            /\ UNCHANGED <<outcome, error>>
    /\ UNCHANGED <<arguments, setting, contribution, sock, io, now, started_at,
                   picked_responses, received, verdict, returned, result>>

\* resolve_over_udp up to the first test of the loop: socket, query,
\* and the first lines of pick_responses.
Open ==
    /\ pc = "resolve_over_udp"
    /\ sock' = "open"
    /\ io' = [sockets |-> io.sockets + 1, sent |-> io.sent + 1,
              waited |-> FALSE, failed |-> FALSE, recvs |-> 0]
    /\ picked_responses' = <<>>
    /\ received' = <<>>
    /\ verdict' = <<>>
    /\ returned' = NoValue
    /\ result' = NoResult
    /\ contribution' = {}
    /\ started_at' = 0
    /\ \E lag \in Lags : Starts(lag) /\ now' = lag
    /\ pc' = "pick_responses"
    /\ UNCHANGED <<arguments, setting, domains, discover_wrong_answers, wrong_answers,
                   outcome, error>>


\* A socket that stays as it is when the with block is left.
closing_Leaks(s) == s

\* with contextlib.closing(sock): the socket when the block is left, by return
\* or by exception.
closing(s) == "closed"

\* pick_responses has ended at time t, returning ret or raising exc:
\* the rest of resolve_over_udp and, under discover, of discover_once and
\* of the loop body of discover.
Exit(ret, exc, t) ==
    LET out == IF exc # "" THEN [raised |-> TRUE, error |-> exc, value |-> NoResult]
               ELSE ShapeResult(ret)
        found == IF out.raised \/ entry = "resolve" THEN {}
                 ELSE discover_once(out.value)
    IN  /\ returned' = ret
        /\ result' = out.value
        /\ sock' = closing(sock)
        /\ now' = t
        /\ IF out.raised
           THEN /\ outcome' = "raised"
                /\ error' = out.error
                /\ pc' = "done"
                /\ UNCHANGED <<domains, discover_wrong_answers, contribution>>
           ELSE IF entry = "resolve"
           THEN /\ outcome' = "returned"
                /\ pc' = "done"
                /\ UNCHANGED <<error, domains, discover_wrong_answers, contribution>>
           ELSE /\ contribution' = found
                /\ discover_wrong_answers' = Accumulate(discover_wrong_answers, found)
                /\ domains' = Tail(domains)
                /\ pc' = IF Tail(domains) = <<>> THEN "done" ELSE "resolve_over_udp"
                /\ outcome' = IF Tail(domains) = <<>> THEN "returned" ELSE "running"
                /\ UNCHANGED error
        /\ UNCHANGED <<arguments, setting, started_at>>

\* while remaining_timeout > 0 fails: return picked_responses.
LoopExit ==
    /\ pc = "pick_responses"
    /\ ~ LoopContinues(remaining_timeout)
    /\ Exit(PyList(picked_responses), "", now)
    /\ UNCHANGED <<io, picked_responses, received, verdict, wrong_answers>>

\* select returns with nothing readable after remaining_timeout.
SelectTimeout ==
    /\ pc = "pick_responses"
    /\ LoopContinues(remaining_timeout)
    /\ Idles
    /\ io' = [io EXCEPT !.waited = TRUE]
    /\ Exit(PyList(picked_responses), "", deadline)
    /\ UNCHANGED <<picked_responses, received, verdict, wrong_answers>>


\* An error from select read as one more way to end the loop.
OnSelectError_ReturnsPartial(picked) == [ret |-> PyList(picked), exc |-> ""]

\* What pick_responses does when select reports the socket in its error list.
OnSelectError(picked) ==
    [ret |-> NoValue, exc |-> "failed to read dns response"]

SelectError ==
    /\ pc = "pick_responses"
    /\ LoopContinues(remaining_timeout)
    /\ io' = [io EXCEPT !.waited = TRUE, !.failed = TRUE]
    /\ \E t \in now..(deadline - 1) :
          /\ Fails(t)
          /\ Exit(OnSelectError(picked_responses).ret,
                  OnSelectError(picked_responses).exc, t)
    /\ UNCHANGED <<picked_responses, received, verdict, wrong_answers>>

\* select reports the socket readable at time t; recv, decode, and the
\* strategy branch on the response.
Receive ==
    /\ pc = "pick_responses"
    /\ LoopContinues(remaining_timeout)
    /\ Len(received) < MaxResponses
    /\ \E response \in Responses, t \in now..(deadline - 1), lag \in Lags :
          LET rule == StrategyRule(strategy, picked_responses, response, wrong_answers)
          IN  /\ Delivers(response, t, lag)
              /\ io' = [io EXCEPT !.waited = TRUE, !.recvs = @ + 1]
              /\ received' = Append(received, response)
              /\ verdict' = IF Classifies(strategy)
                            THEN <<is_right_response(response, wrong_answers)>>
                            ELSE <<>>
              /\ wrong_answers' = WrongAfter(strategy, response, wrong_answers)
              /\ picked_responses' = rule.picked
              /\ IF rule.ctl = "return" THEN Exit(rule.value, "", t)
                 ELSE IF rule.ctl = "raise" THEN Exit(NoValue, "unsupported strategy", t)
                 ELSE /\ now' = t + lag
                      /\ UNCHANGED <<arguments, setting, domains, discover_wrong_answers,
                                     contribution, pc, sock, started_at, returned,
                                     result, outcome, error>>

\* resolve_over_tcp: socket, connect and the framed query.
Connect ==
    /\ pc = "resolve_over_tcp"
    /\ sock' = "open"
    /\ io' = [io EXCEPT !.sockets = @ + 1, !.sent = @ + 1]
    /\ pc' = "read"
    /\ UNCHANGED <<arguments, setting, domains, discover_wrong_answers, contribution,
                   wrong_answers, now, started_at, picked_responses, received,
                   verdict, returned, result, outcome, error>>

\* resolve_over_tcp: the framed response is read and decoded.
Read ==
    /\ pc = "read"
    /\ \E response \in Responses :
          /\ received' = Append(received, response)
          /\ result' = [depth |-> 1, value |-> TcpResult(response)]
    /\ io' = [io EXCEPT !.recvs = @ + 1]
    /\ sock' = closing(sock)
    /\ pc' = "done"
    /\ outcome' = "returned"
    /\ UNCHANGED <<arguments, setting, domains, discover_wrong_answers, contribution,
                   wrong_answers, now, started_at, picked_responses, verdict,
                   returned, error>>

\* resolve_over_tcp: connect, send or read fails or times out (socket.error,
\* socket.timeout, a short frame): the exception leaves the function.
StreamError ==
    /\ pc \in {"resolve_over_tcp", "read"}
    /\ io' = IF pc = "resolve_over_tcp" THEN [io EXCEPT !.sockets = @ + 1] ELSE io
    /\ sock' = closing(sock)
    /\ pc' = "done"
    /\ outcome' = "raised"
    /\ error' = "socket.error"
    /\ UNCHANGED <<arguments, setting, domains, discover_wrong_answers, contribution,
                   wrong_answers, now, started_at, picked_responses, received,
                   verdict, returned, result>>

Datagram == Call \/ Open \/ LoopExit \/ SelectTimeout \/ SelectError \/ Receive
Stream == Connect \/ Read \/ StreamError
Next == Datagram \/ Stream

\* The scripts of two calls of discover: what a DNS server and a forger may
\* send for one query, datagrams of one or of two addresses, up to two of them.
ScriptResponses ==
    {[an |-> <<[type |-> DNS_A, rdata |-> <<1, 1, 1, 1>>]>>],
     [an |-> <<[type |-> DNS_A, rdata |-> <<2, 2, 2, 2>>]>>],
     [an |-> <<[type |-> DNS_A, rdata |-> <<1, 1, 1, 1>>],
               [type |-> DNS_A, rdata |-> <<2, 2, 2, 2>>]>>]}
ScriptEvents == [response : ScriptResponses, t : {0}, lag : Lags]
ScriptEndings == {[kind |-> "timeout", t |-> 0], [kind |-> "error", t |-> 0]}
ProbeScripts ==
    [lag : {0},
     events : {<<>>} \cup {<<e>> : e \in ScriptEvents}
                    \cup {<<e, f>> : e \in ScriptEvents, f \in ScriptEvents},
     ending : ScriptEndings]
Scripts(n) == [kind : {"script"}, probes : [1..n -> ProbeScripts]]

\* discover(domain, at, timeout) on a scripted network, by a caller that will
\* make the same call again.
InitTwice ==
    /\ InitCommon
    /\ entry = "discover"
    /\ server_type = "udp"
    /\ domain \in {<<"twitter.com">>, <<"twitter.com", "twitter.com">>}
    /\ network \in Scripts(Len(domain))
    /\ strategy = "pick-all"
    /\ wrong_answer = NoValue

\* The caller, its call of discover over, notes what came of it and calls
\* discover again with the same arguments on a network that will do again
\* what it did.  Nothing of what the first call wrote is undone.
CallAgain ==
    /\ pc = "done"
    /\ run = 1
    /\ Scripted
    /\ run' = 2
    /\ first' = [outcome |-> outcome, error |-> error,
                 value |-> IF outcome = "returned" THEN discover_wrong_answers ELSE {}]
    /\ pc' = "call"
    /\ outcome' = "running"
    /\ error' = ""
    /\ sock' = "none"
    /\ io' = [sockets |-> 0, sent |-> 0, waited |-> FALSE, failed |-> FALSE,
              recvs |-> 0]
    /\ now' = 0
    /\ UNCHANGED <<arguments, network, domains, discover_wrong_answers,
                   contribution, wrong_answers, started_at, picked_responses,
                   received, verdict, returned, result>>

NextTwice == Datagram \/ CallAgain

\* One call of resolve.
Spec == Init /\ [][Next]_vars
\* One call of discover, which uses datagrams only.
SpecDiscover == InitDiscover /\ [][Datagram]_vars
\* One call of either.
SpecCalls == (Init \/ InitDiscover) /\ [][Next]_vars
\* One call of resolve over udp, with no wrong answer given or with one, by a
\* thread that is not held up for ever: select returns when its timeout is
\* over at the latest.
InitLive ==
    /\ Init
    /\ server_type = "udp"
    /\ wrong_answer \in {NoValue, PyList(<<"1.1.1.1">>)}
SpecLive == InitLive /\ [][Datagram]_vars /\ WF_vars(Datagram)
\* Two calls of discover, one after the other.
SpecTwice == InitTwice /\ [][NextTwice]_vars

(***************************************************************************)
(* Reference notions the properties are stated with.                       *)
(***************************************************************************)
\* The addresses of a response: the rdata of its A records, in order.
RECURSIVE AddressesIn(_)
AddressesIn(an) ==
    IF an = <<>> THEN <<>>
    ELSE (IF Head(an).type = DNS_A THEN <<inet_ntoa(Head(an).rdata)>> ELSE <<>>)
             \o AddressesIn(Tail(an))
AddressList(response) == AddressesIn(response.an)
AddressCount(response) ==
    Cardinality({i \in DOMAIN response.an : response.an[i].type = DNS_A})

\* The classifier as the specification words it.
Genuine(response, wrong) ==
    CASE AddressCount(response) = 0 -> FALSE
      [] AddressCount(response) >= 2 -> TRUE
      [] OTHER -> AddressList(response)[1] \notin wrong

GenuineIndexes == {i \in DOMAIN received : Genuine(received[i], wrong_answers)}
Min(S) == CHOOSE x \in S : \A y \in S : x <= y
Max(S) == CHOOSE x \in S : \A y \in S : x >= y
Last(s) == s[Len(s)]

UdpCall == entry = "resolve" /\ server_type = "udp"
Udp(strat) == UdpCall /\ strategy = strat
Returned == pc = "done" /\ outcome = "returned"

\* C1: under pick-first, once a response has arrived the call has returned
\* the address list of the first response and has read no other response.
C1_PickFirstReturnsFirst ==
    (Udp("pick-first") /\ received # <<>>) =>
        /\ Returned
        /\ result.depth = 1
        /\ result.value = AddressList(received[1])
        /\ Len(received) = 1
        /\ io.recvs = 1

\* C2: under pick-right, once a response judged genuine has arrived the call
\* has returned, before the deadline, the address list of the first such
\* response; the forged ones before it were skipped and none was read after it.
C2_PickRightReturnsFirstGenuine ==
    (Udp("pick-right") /\ GenuineIndexes # {}) =>
        /\ Returned
        /\ result.depth = 1
        /\ result.value = AddressList(received[Min(GenuineIndexes)])
        /\ Min(GenuineIndexes) = Len(received)
        /\ now < deadline

\* C3: under pick-later the candidate held is the last response received
\* and no other; the call does not return before the deadline, and when it
\* returns after at least one response its result is the address list of
\* the last response received.
C3_PickLaterReturnsLast ==
    Udp("pick-later") =>
        /\ picked_responses = IF received = <<>> THEN <<>> ELSE <<Last(received)>>
        /\ Returned => now >= deadline
        /\ (Returned /\ received # <<>>) =>
               /\ returned = PyList(<<Last(received)>>)
               /\ result.depth = 1
               /\ result.value = AddressList(Last(received))

C3_Witness ==
    /\ Udp("pick-later") /\ Returned
    /\ Len(received) = 2
    /\ AddressList(received[1]) = <<"1.1.1.1">>
    /\ AddressList(received[2]) = <<"2.2.2.2">>
    /\ result.value = <<"2.2.2.2">>

\* C4: under pick-right-later the candidate held is the most recent response
\* judged genuine, whatever forged responses came after it, or none if no
\* genuine response has come; the collector returns no earlier than the
\* deadline and returns that candidate.
C4_PickRightLaterHoldsLastGenuine ==
    Udp("pick-right-later") =>
        /\ picked_responses =
               IF GenuineIndexes = {} THEN <<>>
               ELSE <<received[Max(GenuineIndexes)]>>
        /\ Returned =>
               /\ now >= deadline
               /\ returned = PyList(picked_responses)

C4_Witness ==
    /\ Udp("pick-right-later") /\ Returned
    /\ Len(received) = 2
    /\ GenuineIndexes = {1}
    /\ returned = PyList(<<received[1]>>)

\* C5: under pick-all the list collected is the sequence of the responses
\* received, in arrival order; the collector returns that list, and with two
\* or more responses the result has one address list per response, in order.
C5_PickAllKeepsEveryResponse ==
    Udp("pick-all") =>
        /\ picked_responses = received
        /\ Returned =>
               /\ returned = PyList(received)
               /\ Len(received) >= 2 =>
                      /\ result.depth = 2
                      /\ result.value =
                             [i \in 1..Len(received) |-> AddressList(received[i])]

C5_Witness ==
    /\ Udp("pick-all") /\ Returned
    /\ Len(received) = 2
    /\ AddressList(received[1]) = <<"1.1.1.1">>
    /\ AddressList(received[2]) = <<"2.2.2.2", "1.1.1.1">>
    /\ result.value = << <<"1.1.1.1">>, <<"2.2.2.2", "1.1.1.1">> >>

\* C6: whenever is_right_response has judged a response, its verdict is the
\* reference's: false with no address, true with two or more addresses,
\* and with one address true iff the address is not a wrong answer.
C6_ClassifierMatchesReference ==
    verdict # <<>> => verdict[1] = Genuine(Last(received), wrong_answers)

C6_Witness ==
    /\ verdict = <<TRUE>>
    /\ AddressList(Last(received)) = <<"1.1.1.1", "2.2.2.2">>
    /\ wrong_answers = {"1.1.1.1", "2.2.2.2"}

\* The contribution of one domain as the specification words it.
SingleAddresses ==
    {AddressList(received[i])[1] :
         i \in {j \in DOMAIN received : AddressCount(received[j]) = 1}}
ExpectedContribution ==
    IF \E i \in DOMAIN received : AddressCount(received[i]) > 1
    THEN SingleAddresses ELSE {}
\* discover has finished with a domain and has not begun the next.
DomainProbed == entry = "discover" /\ sock = "closed" /\ outcome # "raised"

\* C7: when discover has finished with a domain, the contribution of the
\* domain is the set of the addresses that came alone in a response if some
\* response had more than one address, and is empty otherwise.
C7_DomainContribution ==
    DomainProbed => contribution = ExpectedContribution

C7_Witness ==
    /\ DomainProbed
    /\ Len(received) = 2
    /\ AddressList(received[1]) = <<"1.1.1.1">>
    /\ AddressList(received[2]) = <<"1.1.1.1", "2.2.2.2">>
    /\ contribution = {"1.1.1.1"}

\* C8: under each of the five strategies, a call that has reached its
\* deadline without any response has returned the empty list.
C8_NoResponseGivesEmpty ==
    (UdpCall /\ strategy \in Strategies /\ pc = "done"
        /\ received = <<>> /\ now >= deadline) =>
        /\ outcome = "returned"
        /\ result.value = <<>>

C8_Witness ==
    /\ UdpCall /\ strategy = "pick-right" /\ pc = "done"
    /\ timeout > 0 /\ io.waited /\ received = <<>> /\ now >= deadline
    /\ outcome = "returned"

\* C9: a call with a strategy outside the five does no network I/O (no
\* socket, no query, no wait, no recv) and ends with "unsupported strategy".
C9_UnsupportedStrategyFailsBeforeIO ==
    (UdpCall /\ strategy \notin Strategies) =>
        /\ io = [sockets |-> 0, sent |-> 0, waited |-> FALSE, failed |-> FALSE,
                 recvs |-> 0]
        /\ pc = "done" => (outcome = "raised" /\ error = "unsupported strategy")

\* C10: when the collector has returned, the result is the flat address list
\* of the one response selected, one address list per response when two or
\* more were selected, and the empty list when none was.
C10_ResultShape ==
    (UdpCall /\ pc = "done" /\ returned.kind # "none") =>
        /\ outcome = "returned"
        /\ Len(returned.items) = 1 =>
               result.depth = 1 /\ result.value = AddressList(returned.items[1])
        /\ Len(returned.items) >= 2 =>
               /\ result.depth = 2
               /\ result.value =
                      [i \in 1..Len(returned.items) |-> AddressList(returned.items[i])]
        /\ returned.items = <<>> => result.value = <<>>

(***************************************************************************)
(* C11: when select reports the socket in its error list, pick_responses   *)
(* raises whatever the strategy and whatever it holds: the call has failed *)
(* with 'failed to read dns response', and neither pick_responses nor      *)
(* resolve_over_udp has returned a value, held or accumulated.             *)
(***************************************************************************)
C11_TransportErrorAborts ==
    io.failed =>
        /\ pc = "done"
        /\ outcome = "raised"
        /\ error = "failed to read dns response"
        /\ returned = NoValue
        /\ result = NoResult

\* The error strikes a pick-all call that has already accumulated a response
\* with an address.
C11_Witness ==
    /\ Udp("pick-all") /\ io.failed
    /\ picked_responses # <<>>
    /\ AddressCount(picked_responses[1]) > 0

(***************************************************************************)
(* C12: the accumulator of discover is empty when the call starts; no step *)
(* takes an element out of it; the step that ends the probe of a domain    *)
(* leaves it equal to its former value united with that domain's           *)
(* contribution, once for each entry of the domain sequence, and every     *)
(* other step leaves it as it is.  The set returned is therefore the union *)
(* of the contributions of all the entries.                                *)
(***************************************************************************)
C12_DomainStep ==
    /\ discover_wrong_answers \subseteq discover_wrong_answers'
    /\ IF Len(domains') < Len(domains)
       THEN /\ Len(domains') = Len(domains) - 1
            /\ discover_wrong_answers' = discover_wrong_answers \cup contribution'
       ELSE discover_wrong_answers' = discover_wrong_answers
C12_AccumulatorIsUnion ==
    /\ discover_wrong_answers = {}
    /\ [][C12_DomainStep]_vars

\* Two domains probed, each contributing an address of its own.
C12_Witness ==
    /\ entry = "discover" /\ pc = "done" /\ outcome = "returned"
    /\ domains = <<>>
    /\ contribution = {"2.2.2.2"}
    /\ discover_wrong_answers = {"1.1.1.1", "2.2.2.2"}

(***************************************************************************)
(* C20: under pick-later and pick-right-later picked_responses never holds *)
(* more than one response, so that what resolve over UDP returns with      *)
(* these strategies is a flat list: the addresses of the response held, or *)
(* the empty list, never a list of address lists.                          *)
(***************************************************************************)
C20_LaterStrategiesHoldOne ==
    (UdpCall /\ strategy \in {"pick-later", "pick-right-later"}) =>
        /\ Len(picked_responses) <= 1
        /\ Returned =>
               /\ result.depth = 1
               /\ \A i \in DOMAIN result.value : result.value[i] \in Addresses

\* Two genuine responses arrived under pick-right-later and the call
\* returned the addresses of one of them.
C20_Witness ==
    /\ Udp("pick-right-later") /\ Returned
    /\ Len(received) = 2
    /\ GenuineIndexes = {1, 2}
    /\ result.depth = 1
    /\ Len(result.value) = 2

(***************************************************************************)
(* C17: under pick-right and pick-right-later every response the collector *)
(* holds in picked_responses, and every response it returns, has at least  *)
(* one A answer and is not a response whose only address is in the         *)
(* wrong-answer set.                                                       *)
(***************************************************************************)
Trusted(response) ==
    /\ AddressCount(response) > 0
    /\ ~ (AddressCount(response) = 1 /\ AddressList(response)[1] \in wrong_answers)
C17_NeverSelectsForged ==
    (UdpCall /\ strategy \in {"pick-right", "pick-right-later"}) =>
        /\ \A i \in DOMAIN picked_responses : Trusted(picked_responses[i])
        /\ \A i \in DOMAIN returned.items : Trusted(returned.items[i])

\* pick-right passed over a response without addresses and selected the one
\* after it, whose only address is not among the wrong answers known.
C17_Witness ==
    /\ Udp("pick-right") /\ pc = "done"
    /\ wrong_answers = {"1.1.1.1"}
    /\ Len(received) = 2
    /\ AddressCount(received[1]) = 0
    /\ AddressList(received[2]) = <<"2.2.2.2">>
    /\ returned.items = <<received[2]>>

(***************************************************************************)
(* C14: resolve with server type tcp reads at most one response; when it   *)
(* returns, it has read exactly one and its result is the address list of  *)
(* that response, a function of what the network delivered in which        *)
(* neither strategy nor wrong_answer occurs: the classifier is not asked,  *)
(* no wrong-answer set is built and no candidate is held.  Two calls that  *)
(* differ in those two arguments only and read the same response therefore *)
(* return the same result.                                                 *)
(***************************************************************************)
TcpCall == entry = "resolve" /\ server_type = "tcp"
C14_TcpIgnoresStrategy ==
    TcpCall =>
        /\ io.recvs <= 1
        /\ Len(received) = io.recvs
        /\ verdict = <<>>
        /\ wrong_answers = {}
        /\ picked_responses = <<>>
        /\ Returned =>
               /\ Len(received) = 1
               /\ result = [depth |-> 1, value |-> AddressList(received[1])]
        /\ (pc = "done" /\ ~ Returned) => result = NoResult

\* Over tcp the only response is returned although the call asked for
\* pick-right and its one address is in wrong_answer.
C14_Witness ==
    /\ TcpCall /\ Returned
    /\ strategy = "pick-right"
    /\ wrong_answer = PyList(<<"1.1.1.1">>)
    /\ result.value = <<"1.1.1.1">>

(***************************************************************************)
(* C15: a resolve call whose server type is neither udp nor tcp creates no *)
(* socket and sends nothing; the one step it takes raises 'unsupported     *)
(* server type'.                                                           *)
(***************************************************************************)
C15_UnsupportedServerTypeFailsFast ==
    (entry = "resolve" /\ server_type \notin ServerTypes) =>
        /\ io.sockets = 0 /\ io.sent = 0 /\ io.recvs = 0 /\ ~ io.waited
        /\ sock = "none"
        /\ pc \in {"call", "done"}
        /\ pc = "done" => (outcome = "raised" /\ error = "unsupported server type")

C15_Witness ==
    /\ entry = "resolve" /\ server_type = UnsupportedServerType
    /\ pc = "done" /\ outcome = "raised"
    /\ error = "unsupported server type"
    /\ io.sockets = 0

(***************************************************************************)
(* C19: in a resolve call no step changes the caller's wrong_answer, and   *)
(* once resolve has built the set it hands to resolve_over_udp no step     *)
(* adds to it or removes from it: sending, receiving, classifying,         *)
(* holding, discarding and returning all leave it the set of the caller's  *)
(* addresses.                                                              *)
(***************************************************************************)
C19_WrongAnswersStep ==
    entry = "resolve" =>
        /\ wrong_answer' = wrong_answer
        /\ pc # "call" => wrong_answers' = wrong_answers
        /\ (server_type = "udp" /\ pc' # "call") =>
               wrong_answers' = WrongAnswerSet(wrong_answer)
C19_WrongAnswersUnchanged == [][C19_WrongAnswersStep]_vars

\* A call that classified a forged response and then a genuine one has
\* returned with the set it was given.
C19_Witness ==
    /\ Udp("pick-right-later") /\ Returned
    /\ wrong_answer = PyList(<<"1.1.1.1">>)
    /\ wrong_answers = {"1.1.1.1"}
    /\ Len(received) = 2
    /\ AddressList(received[1]) = <<"1.1.1.1">>
    /\ AddressList(received[2]) = <<"2.2.2.2">>
    /\ verdict = <<TRUE>>

(***************************************************************************)
(* C13: discover called twice with the same domain sequence and timeout,   *)
(* on a network that sends the same datagrams at the same times, comes to  *)
(* the same end both times: the second call returns the set the first      *)
(* returned, or fails as the first failed.  Nothing the first call wrote   *)
(* is undone between the two, so whatever it left behind is there for the  *)
(* second call to be influenced by.                                        *)
(***************************************************************************)
C13_DiscoverTwiceSameSet ==
    (run = 2 /\ pc = "done") =>
        /\ outcome = first.outcome
        /\ error = first.error
        /\ outcome = "returned" => discover_wrong_answers = first.value

\* Both calls probed two domains and returned the one forged address.
C13_Witness ==
    /\ run = 2 /\ pc = "done" /\ outcome = "returned"
    /\ Len(domain) = 2
    /\ first.value = {"1.1.1.1"}
    /\ discover_wrong_answers = {"1.1.1.1"}

(***************************************************************************)
(* C18, as stated: a call of resolve (of a supported server type) or of   *)
(* discover opens exactly one socket, never a second one, and from the     *)
(* moment a query has been sent that socket is open until the call has     *)
(* returned or failed.                                                     *)
(***************************************************************************)
C18_OneSocketPerCall ==
    /\ io.sockets <= 1
    /\ (pc = "done" /\ server_type \in ServerTypes) => io.sockets = 1
    /\ (io.sent > 0 /\ pc # "done") => sock = "open"

(***************************************************************************)
(* C18, amended: a socket is open exactly while resolve_over_udp or        *)
(* resolve_over_tcp is between sending its query and returning or failing, *)
(* and each socket carries at most one query.  A resolve call whose server *)
(* type is udp or tcp has opened exactly one socket when it ends, a        *)
(* resolve call with another server type none.  A discover call opens one  *)
(* socket for each entry of its domain sequence, one after the other, the  *)
(* socket of an entry closed before that of the next is opened: as many as *)
(* the entries when it returns.                                            *)
(***************************************************************************)
C18_OneSocketPerProbe ==
    /\ sock = "open" <=> pc \in {"pick_responses", "read"}
    /\ io.sent <= io.sockets
    /\ pc \in {"pick_responses", "read"} => io.sent = io.sockets
    /\ entry = "resolve" =>
           /\ io.sockets <= 1
           /\ pc = "done" =>
                  io.sockets = IF server_type \in ServerTypes THEN 1 ELSE 0
    /\ (entry = "discover" /\ pc # "call") =>
           io.sockets = Len(domain) - Len(domains)
                            + (IF pc = "pick_responses" \/ outcome = "raised"
                               THEN 1 ELSE 0)
    /\ (entry = "discover" /\ Returned) => io.sockets = Len(domain)

\* discover over two domains has returned, having opened and closed two
\* sockets.
C18_Witness ==
    /\ entry = "discover" /\ Returned
    /\ Len(domain) = 2
    /\ io.sockets = 2
    /\ sock = "closed"

(***************************************************************************)
(* C16: a call in pick_responses always comes to its end.  When the clock  *)
(* has reached started_at + timeout at the test of the loop, the one step  *)
(* the call can take leaves the loop and returns picked_responses as it    *)
(* is, without a further select or recv.  A call with timeout <= 0 over    *)
(* UDP never calls select or recv and returns the empty list.              *)
(***************************************************************************)
C16_DeadlineStep ==
    (pc = "pick_responses" /\ now >= started_at + timeout) =>
        /\ pc' = "done"
        /\ outcome' = "returned"
        /\ returned' = PyList(picked_responses)
        /\ io' = io
        /\ now' = now
C16_NoWaitWithoutTime ==
    (UdpCall /\ timeout <= 0) =>
        /\ ~ io.waited /\ io.recvs = 0
        /\ pc = "done" =>
               /\ outcome = "returned"
               /\ returned = PyList(<<>>)
               /\ result = [depth |-> 1, value |-> <<>>]
C16_CollectorTerminates ==
    /\ [][C16_DeadlineStep]_vars
    /\ []C16_NoWaitWithoutTime
    /\ (pc = "pick_responses") ~> (pc = "done")

\* pick-all took two responses, the second of which kept it busy until the
\* deadline, and returned both.
C16_Witness ==
    /\ Udp("pick-all") /\ Returned
    /\ timeout = 1
    /\ now = deadline
    /\ Len(received) = 2
    /\ returned = PyList(received)

====
